---- MODULE Spec2Model ----
(***************************************************************************)
(* Model of dynamic_speed_manager.py: the main() control loop and the      *)
(* three client adapters (SABnzbd, Deluge, qBittorrent).                    *)
(*                                                                          *)
(* One action per step of the loop body that is separated from the next by  *)
(* a remote call.  The answer of every remote call is drawn with \E from    *)
(* the outcomes the call can have: a result, an exception of a class the    *)
(* adapter catches, or an exception of another class.                       *)
(***************************************************************************)
EXTENDS Integers, Sequences, FiniteSets, TLC

(* ------------------------------ bounds --------------------------------- *)
SmallBudget == 2     \* a budget that does not divide evenly, next to the shipped 3000
SmallFloor == 1      \* a floor next to the shipped 1000
MaxAllocBudget == 12         \* budgets 0..MaxAllocBudget for the allocation alone
MaxTorrents == 2     \* longest torrent list a client reports

(* --------------------------- settings.py ------------------------------- *)
ShippedTotalSpeedLimit == 3000
ShippedDefaultSpeedLimit == 1000

Budgets == {SmallBudget, ShippedTotalSpeedLimit}
Floors == {SmallFloor, ShippedDefaultSpeedLimit}

Clients == {"sabnzbd", "deluge", "qbittorrent"}

VARIABLES
    TOTAL_SPEED_LIMIT,        \* settings.TOTAL_SPEED_LIMIT
    DEFAULT_SPEED_LIMIT,      \* settings.DEFAULT_SPEED_LIMIT
    watched_folder_paths,     \* TRUE iff settings.watched_folder_paths is non-empty
    pc,                       \* position of main() in the loop body
    deluge_client,            \* "None" | "connected" | "disconnected" (object with connected = False)
    qb_client,                \* "None" | "client"
    is_qb_connected,
    previous_active_clients,
    active_clients,
    speed_per_client,
    tick,                     \* the calls main() has made since the top of the loop body
    last,                     \* how the preceding pass through the loop body ended
    delivered,                \* history: per client, what became of its
                              \* set_*_speed() call in the last pass that reached
                              \* line 233 (kept by DeliverySpec only)
    call                      \* FunctionSpec: the function applied to the state,
                              \* the reply it is given and what it returned

vars == <<TOTAL_SPEED_LIMIT, DEFAULT_SPEED_LIMIT, watched_folder_paths, pc,
          deluge_client, qb_client, is_qb_connected, previous_active_clients,
          active_clients, speed_per_client, tick, last, delivered, call>>

config == <<TOTAL_SPEED_LIMIT, DEFAULT_SPEED_LIMIT, watched_folder_paths>>

(* ------------------------ observation of a tick ------------------------ *)
NoCalls == [c \in Clients |-> <<>>]

FreshTick ==
    [ downAtStart   |-> {"deluge", "qbittorrent"},
                                  \* session clients without a usable handle at
                                  \* the top of the body (lines 175-176 at first)
      connects      |-> {},       \* clients whose get_*_client() was called
      connectCalls  |-> [c \in {"deluge", "qbittorrent"} |-> 0],
                                  \* ... and how many times
      connectFailed |-> {},       \* ... and returned None
      versionProbed |-> FALSE,    \* qb_client.app.version was read
      versionLost   |-> FALSE,    \* ... and raised APIConnectionError
      gateClosed    |-> FALSE,    \* the watched folders had no content
      probed        |-> {},       \* clients whose is_*_downloading() was called
      probeRaised   |-> {},       \* ... and the remote call raised
      probeNoHandle |-> {},       \* ... and was given None as client
      polled        |-> FALSE,    \* the three status checks have all returned
      applying      |-> FALSE,    \* the speed adjustment (line 232 on) was entered
      limits        |-> NoCalls,  \* rates passed to set_*_speed(), per client
      limitRemote   |-> {},       \* clients whose set_*_speed() made its remote call
      limitRaised   |-> {},       \* ... and the remote call raised
      limitNoHandle |-> {},       \* clients whose set_*_speed() returned at its first test
      retry         |-> {},       \* clients whose last set_*_speed() call failed
                                  \* and was swallowed, at line 233
      prevAtStart   |-> <<>>,     \* previous_active_clients at the top of the body
      raisedAt      |-> "none",   \* step whose exception reached main()'s handler
      outcome       |-> "running" \* "gated" | "debounced" | "applied" | "aborted"
    ]

\* what is kept of a pass through the loop body once it is over
NoLast ==
    [outcome |-> "none", active |-> <<>>, calls |-> [c \in Clients |-> 0],
     changed |-> FALSE]

(* ----------------------------- adapters -------------------------------- *)
\* What a remote call answers: exc is "none" when it returns, otherwise the
\* class of the exception it raises; status / torrents carry the result.
Caught(exc, classes) == exc \in classes

SeqsUpTo(S, n) == UNION {[1..k -> S] : k \in 0..n}

\* --- SABnzbd ---
\* The queue call answers with the queue's "status" field ("missing" when the
\* answer has none), or raises: a requests exception, ValueError for a body
\* that is not JSON, AttributeError for a JSON body that is not an object.
SabStatuses == {"Downloading", "Idle", "Paused", "missing"}
SabProbeExceptions == {"RequestException", "ValueError", "AttributeError"}

SabProbeReplies ==
    {[exc |-> "none", status |-> st] : st \in SabStatuses}
        \cup {[exc |-> e, status |-> "missing"] : e \in SabProbeExceptions}

SabProbeCaught == {"RequestException", "KeyError", "ValueError"}

\* TRUE iff the exception leaves is_sabnzbd_downloading()
is_sabnzbd_downloading_raises(reply) ==
    reply.exc # "none" /\ ~Caught(reply.exc, SabProbeCaught)

is_sabnzbd_downloading(reply) ==
    IF reply.exc # "none" THEN FALSE ELSE reply.status = "Downloading"

SabSetReplies == {"none", "RequestException", "TypeError"}
SabSetCaught == {"RequestException"}

\* TRUE iff the exception leaves set_sabnzbd_speed()
set_sabnzbd_speed_raises(exc) == exc # "none" /\ ~Caught(exc, SabSetCaught)

\* --- Deluge ---
\* connect() returns or raises; every class is caught (except Exception)
DelugeConnectReplies == {"none", "ConnectionRefusedError", "Exception"}

\* a get_deluge_client() that returns the client object it built also when
\* connect() raised
get_deluge_client_keeps_object(exc) == "connected"

get_deluge_client(exc) == IF exc = "none" THEN "connected" ELSE "None"

\* "not client or not client.connected" is false
DelugeUsable(client) == client = "connected"

\* A record of core.get_torrents_status: has_rate says whether the field
\* download_payload_rate is present.
DelugeTorrents ==
    {[has_rate |-> TRUE, download_payload_rate |-> 0],
     [has_rate |-> TRUE, download_payload_rate |-> 7],
     [has_rate |-> FALSE, download_payload_rate |-> 0]}

DelugeCallExceptions == {"ConnectionLostException", "Exception"}

DelugeProbeReplies ==
    {[exc |-> "none", torrents |-> t] : t \in SeqsUpTo(DelugeTorrents, MaxTorrents)}
        \cup {[exc |-> e, torrents |-> <<>>] : e \in DelugeCallExceptions}

RECURSIVE AnyDelugeRate(_)
AnyDelugeRate(torrents) ==
    IF Len(torrents) = 0 THEN FALSE
    ELSE LET torrent_info == Head(torrents)
             download_rate == IF torrent_info.has_rate
                              THEN torrent_info.download_payload_rate
                              ELSE 0
         IN  IF download_rate > 0 THEN TRUE ELSE AnyDelugeRate(Tail(torrents))

\* an is_deluge_downloading() without the test of line 62
is_deluge_downloading_untested(client, reply) ==
    reply.exc = "none" /\ AnyDelugeRate(reply.torrents)

\* an is_deluge_downloading() that does not look at the rates
is_deluge_downloading_any_torrent(client, reply) ==
    DelugeUsable(client) /\ reply.exc = "none" /\ Len(reply.torrents) > 0

is_deluge_downloading(client, reply) ==
    IF ~DelugeUsable(client) THEN FALSE
    ELSE IF reply.exc # "none" THEN FALSE
    ELSE IF Len(reply.torrents) = 0 THEN FALSE
    ELSE AnyDelugeRate(reply.torrents)

\* "except Exception" catches every class a call can raise
DelugeCaught == DelugeCallExceptions

\* TRUE iff the exception leaves is_deluge_downloading()
is_deluge_downloading_raises(client, reply) ==
    DelugeUsable(client) /\ reply.exc # "none" /\ ~Caught(reply.exc, DelugeCaught)

\* what is_deluge_downloading() does with each answer of the daemon
DelugeProbeResults(client) ==
    {[exc         |-> reply.exc,
      raises      |-> is_deluge_downloading_raises(client, reply),
      downloading |-> is_deluge_downloading(client, reply)] :
        reply \in DelugeProbeReplies}

DelugeProbeResultsConnected == DelugeProbeResults("connected")

\* with no usable client no call is made: the function returns at line 63
DelugeProbeResultsUnusable ==
    {[exc         |-> "none",
      raises      |-> is_deluge_downloading_raises(client, reply),
      downloading |-> is_deluge_downloading(client, reply)] :
        client \in {"None", "disconnected"}, reply \in DelugeProbeReplies}

DelugeSetReplies == {"none"} \cup DelugeCallExceptions

\* TRUE iff the exception leaves set_deluge_speed()
set_deluge_speed_raises(client, exc) ==
    DelugeUsable(client) /\ exc # "none" /\ ~Caught(exc, DelugeCaught)

\* The client object after a call: a call that loses the connection leaves
\* the object with connected = False.
DelugeAfterCall(client, exc) ==
    IF DelugeUsable(client) /\ exc = "ConnectionLostException"
    THEN "disconnected" ELSE client

\* --- qBittorrent ---
QbExceptions == {"APIConnectionError", "KeyError"}
QbConnectReplies == {"none"} \cup QbExceptions

\* a liveness check that takes every answer for a live connection
QbAlive_whatever(exc) == TRUE

\* lines 189-194: is_qb_connected after qb_client.app.version
QbAlive(exc) == exc = "none"

\* a get_qbittorrent_client() that returns the client object it built also
\* when auth_log_in() raised
get_qbittorrent_client_keeps_object(exc) == "client"

\* both except clauses return None
get_qbittorrent_client(exc) == IF exc = "none" THEN "client" ELSE "None"

QbStates ==
    {"downloading", "forcedDL", "pausedDL", "stoppedDL", "stalledDL", "metaDL",
     "queuedDL", "checkingDL", "checkingResumeData"}

\* a list of stalled states without "queuedDL"
is_qbittorrent_stalled_without_queued(torrent_state) ==
    torrent_state \in {"stalledDL", "metaDL", "checkingDL", "checkingResumeData"}

is_qbittorrent_stalled(torrent_state) ==
    torrent_state \in
        {"stalledDL", "metaDL", "queuedDL", "checkingDL", "checkingResumeData"}

RECURSIVE AnyQbActive(_)
AnyQbActive(torrents) ==
    IF Len(torrents) = 0 THEN FALSE
    ELSE LET state == Head(torrents)
         IN  IF state \in {"pausedDL", "stoppedDL"} THEN AnyQbActive(Tail(torrents))
             ELSE IF is_qbittorrent_stalled(state) THEN AnyQbActive(Tail(torrents))
             ELSE TRUE

QbProbeReplies ==
    {[exc |-> "none", torrents |-> t] : t \in SeqsUpTo(QbStates, MaxTorrents)}
        \cup {[exc |-> e, torrents |-> <<>>] : e \in QbExceptions}

QbCaught == {"APIConnectionError"}

is_qbittorrent_downloading(client, reply) ==
    IF client = "None" THEN FALSE
    ELSE IF reply.exc # "none" THEN FALSE
    ELSE IF Len(reply.torrents) = 0 THEN FALSE
    ELSE AnyQbActive(reply.torrents)

\* TRUE iff the exception leaves is_qbittorrent_downloading()
is_qbittorrent_downloading_raises(client, reply) ==
    client # "None" /\ reply.exc # "none" /\ ~Caught(reply.exc, QbCaught)

\* what is_qbittorrent_downloading() does with each answer of the client
QbProbeResults(client) ==
    {[exc         |-> reply.exc,
      raises      |-> is_qbittorrent_downloading_raises(client, reply),
      downloading |-> is_qbittorrent_downloading(client, reply)] :
        reply \in QbProbeReplies}

QbProbeResultsClient == QbProbeResults("client")

\* with no client no call is made: the function returns at line 139
QbProbeResultsNone ==
    {[exc         |-> "none",
      raises      |-> is_qbittorrent_downloading_raises("None", reply),
      downloading |-> is_qbittorrent_downloading("None", reply)] :
        reply \in QbProbeReplies}

QbSetReplies == {"none"} \cup QbExceptions

\* TRUE iff the exception leaves set_qbittorrent_speed()
set_qbittorrent_speed_raises(client, exc) ==
    client # "None" /\ exc # "none" /\ ~Caught(exc, QbCaught)

(* ------------------------------ main() --------------------------------- *)
InSeq(x, s) == \E i \in 1..Len(s) : s[i] = x

\* a division that rounds up
SpeedPerClient_rounded_up(active) ==
    LET num_active == Len(active)
    IN  IF num_active > 0
        THEN (TOTAL_SPEED_LIMIT + num_active - 1) \div num_active
        ELSE DEFAULT_SPEED_LIMIT

\* lines 234-240
SpeedPerClient(active) ==
    LET num_active == Len(active)
    IN  IF num_active > 0 THEN TOTAL_SPEED_LIMIT \div num_active
        ELSE DEFAULT_SPEED_LIMIT

\* the argument main() gives set_*_speed() for one client (lines 247-261)
RateFor(c, active, speed) ==
    IF InSeq(c, active) THEN speed ELSE DEFAULT_SPEED_LIMIT

\* a comparison of the numbers of active clients instead of the lists
SameState_by_count(active, previous) == Len(active) = Len(previous)

\* a comparison of the two list objects, which are never the same object
SameState_by_identity(active, previous) == FALSE

\* the comparison of line 228
SameState(active, previous) == active = previous

\* where "except Exception" of main() takes the loop, and where the loop
\* goes after the 15 s sleep of the handler
HandlerEntry == "backoff"

\* a handler that leaves the while loop
AfterBackoff_leaves_loop == "exit"

AfterBackoff == "connD"
AfterSleep == "connD"

Summary(t) ==
    [outcome |-> t.outcome,
     active  |-> IF t.polled THEN active_clients ELSE <<>>,
     calls   |-> [c \in Clients |-> Len(t.limits[c])],
     changed |-> t.polled /\ active_clients # t.prevAtStart]

\* main() is running: no function is applied on its own
NoCall ==
    [fn |-> "none", reply |-> [exc |-> "none", torrents |-> <<>>],
     done |-> FALSE, raised |-> FALSE, result |-> FALSE]

\* the history of the set_*_speed() calls is not kept
NotRecorded == [c \in Clients |-> "unrecorded"]

\* no pass has reached line 233 yet
NeverApplied == [c \in Clients |-> "never"]

\* set_*_speed() of client c ended as v: "ok", "noop" (no usable handle),
\* "swallowed" (raised and caught inside), "escaped" (raised into main());
\* "skipped" stands for a call that has not been made
Record(d, c, v) == IF d = NotRecorded THEN d ELSE [d EXCEPT ![c] = v]

\* lines 232-233: all three calls are due
RecordDue(d) == IF d = NotRecorded THEN d ELSE [c \in Clients |-> "skipped"]

\* a first value that no active list equals
InitialPrevious_unset == <<"unset">>

\* line 177
InitialPrevious == <<>>

\* lines 175-177 and the settings
Start ==
    /\ TOTAL_SPEED_LIMIT \in Budgets
    /\ DEFAULT_SPEED_LIMIT \in Floors
    /\ watched_folder_paths \in BOOLEAN
    /\ pc = "connD"
    /\ deluge_client = "None"
    /\ qb_client = "None"
    /\ is_qb_connected = FALSE
    /\ previous_active_clients = InitialPrevious
    /\ active_clients = <<>>
    /\ speed_per_client = 0
    /\ tick = FreshTick
    /\ last = NoLast

Init == Start /\ delivered = NotRecorded /\ call = NoCall

\* lines 183-184
ConnectDeluge ==
    /\ pc = "connD"
    /\ IF ~DelugeUsable(deluge_client)
       THEN \E exc \in DelugeConnectReplies :
              /\ deluge_client' = get_deluge_client(exc)
              /\ tick' = [tick EXCEPT
                    !.connects = @ \cup {"deluge"},
                    !.connectCalls["deluge"] = @ + 1,
                    !.connectFailed =
                        IF exc = "none" THEN @ ELSE @ \cup {"deluge"}]
       ELSE UNCHANGED <<deluge_client, tick>>
    /\ pc' = "checkQ"
    /\ UNCHANGED <<config, call, delivered, qb_client, is_qb_connected, previous_active_clients,
                   active_clients, speed_per_client, last>>

\* lines 187-194: qb_client.app.version raises APIConnectionError, another
\* exception (which leaves the try of line 189), or returns
CheckQbittorrent ==
    /\ pc = "checkQ"
    /\ IF qb_client # "None"
       THEN \E exc \in QbConnectReplies :
              /\ is_qb_connected' = QbAlive(exc)
              /\ IF exc # "none" /\ ~Caught(exc, QbCaught)
                 THEN /\ pc' = HandlerEntry
                      /\ tick' = [tick EXCEPT !.versionProbed = TRUE,
                                              !.raisedAt = "checkQ",
                                              !.outcome = "aborted"]
                 ELSE /\ pc' = "connQ"
                      /\ tick' = [tick EXCEPT !.versionProbed = TRUE,
                                              !.versionLost = (exc # "none")]
       ELSE /\ is_qb_connected' = FALSE
            /\ pc' = "connQ"
            /\ UNCHANGED tick
    /\ UNCHANGED <<config, call, delivered, deluge_client, qb_client, previous_active_clients,
                   active_clients, speed_per_client, last>>

\* lines 196-197
ConnectQbittorrent ==
    /\ pc = "connQ"
    /\ IF ~is_qb_connected
       THEN \E exc \in QbConnectReplies :
              /\ qb_client' = get_qbittorrent_client(exc)
              /\ tick' = [tick EXCEPT
                    !.connects = @ \cup {"qbittorrent"},
                    !.connectCalls["qbittorrent"] = @ + 1,
                    !.connectFailed =
                        IF exc = "none" THEN @ ELSE @ \cup {"qbittorrent"}]
       ELSE UNCHANGED <<qb_client, tick>>
    /\ pc' = "gate"
    /\ UNCHANGED <<config, call, delivered, deluge_client, is_qb_connected, previous_active_clients,
                   active_clients, speed_per_client, last>>

\* lines 200-215: has_content is what os.walk finds under the watched paths
WatchedFolderGate ==
    /\ pc = "gate"
    /\ \E has_content \in BOOLEAN :
          IF watched_folder_paths /\ ~has_content
          THEN /\ pc' = "sleep"
               /\ tick' = [tick EXCEPT !.gateClosed = TRUE, !.outcome = "gated"]
          ELSE /\ pc' = "probeS"
               /\ UNCHANGED tick
    /\ UNCHANGED <<config, call, delivered, deluge_client, qb_client, is_qb_connected,
                   previous_active_clients, active_clients, speed_per_client, last>>

\* lines 218-220
CheckSabnzbd ==
    /\ pc = "probeS"
    /\ \E reply \in SabProbeReplies :
          IF is_sabnzbd_downloading_raises(reply)
          THEN /\ active_clients' = <<>>
               /\ pc' = HandlerEntry
               /\ tick' = [tick EXCEPT !.probed = @ \cup {"sabnzbd"},
                                       !.probeRaised = @ \cup {"sabnzbd"},
                                       !.raisedAt = "probeS",
                                       !.outcome = "aborted"]
          ELSE /\ active_clients' = IF is_sabnzbd_downloading(reply)
                                    THEN <<"sabnzbd">> ELSE <<>>
               /\ pc' = "probeD"
               /\ tick' = [tick EXCEPT
                     !.probed = @ \cup {"sabnzbd"},
                     !.probeRaised =
                         IF reply.exc # "none" THEN @ \cup {"sabnzbd"} ELSE @]
    /\ UNCHANGED <<config, call, delivered, deluge_client, qb_client, is_qb_connected,
                   previous_active_clients, speed_per_client, last>>

\* lines 221-222
CheckDeluge ==
    /\ pc = "probeD"
    /\ \E res \in IF DelugeUsable(deluge_client)
                  THEN DelugeProbeResultsConnected
                  ELSE DelugeProbeResultsUnusable :
          /\ active_clients' = IF res.downloading
                               THEN Append(active_clients, "deluge")
                               ELSE active_clients
          /\ deluge_client' = DelugeAfterCall(deluge_client, res.exc)
          /\ IF res.raises
             THEN /\ pc' = HandlerEntry
                  /\ tick' = [tick EXCEPT !.probed = @ \cup {"deluge"},
                                          !.probeRaised = @ \cup {"deluge"},
                                          !.raisedAt = "probeD",
                                          !.outcome = "aborted"]
             ELSE /\ pc' = "probeQ"
                  /\ tick' = [tick EXCEPT
                        !.probed = @ \cup {"deluge"},
                        !.probeNoHandle =
                            IF deluge_client = "None" THEN @ \cup {"deluge"} ELSE @,
                        !.probeRaised =
                            IF res.exc # "none" THEN @ \cup {"deluge"} ELSE @]
    /\ UNCHANGED <<config, call, delivered, qb_client, is_qb_connected, previous_active_clients,
                   speed_per_client, last>>

\* lines 223-224
CheckQbittorrentActivity ==
    /\ pc = "probeQ"
    /\ \E res \in IF qb_client # "None"
                  THEN QbProbeResultsClient
                  ELSE QbProbeResultsNone :
          IF res.raises
          THEN /\ active_clients' = active_clients
               /\ pc' = HandlerEntry
               /\ tick' = [tick EXCEPT !.probed = @ \cup {"qbittorrent"},
                                       !.probeRaised = @ \cup {"qbittorrent"},
                                       !.raisedAt = "probeQ",
                                       !.outcome = "aborted"]
          ELSE /\ active_clients' = IF res.downloading
                                    THEN Append(active_clients, "qbittorrent")
                                    ELSE active_clients
               /\ pc' = "debounce"
               /\ tick' = [tick EXCEPT
                     !.probed = @ \cup {"qbittorrent"},
                     !.polled = TRUE,
                     !.probeNoHandle =
                         IF qb_client = "None" THEN @ \cup {"qbittorrent"} ELSE @,
                     !.probeRaised =
                         IF res.exc # "none" THEN @ \cup {"qbittorrent"} ELSE @]
    /\ UNCHANGED <<config, call, delivered, deluge_client, qb_client, is_qb_connected,
                   previous_active_clients, speed_per_client, last>>

\* lines 228-230: the state has not changed
Debounce ==
    /\ pc = "debounce"
    /\ SameState(active_clients, previous_active_clients)
    /\ pc' = "sleep"
    /\ tick' = [tick EXCEPT !.outcome = "debounced"]
    /\ UNCHANGED <<config, call, delivered, deluge_client, qb_client, is_qb_connected,
                   previous_active_clients, active_clients, speed_per_client, last>>

\* lines 228, 232-244: the state has changed
StateChanged ==
    /\ pc = "debounce"
    /\ ~SameState(active_clients, previous_active_clients)
    /\ previous_active_clients' = active_clients
    /\ speed_per_client' = SpeedPerClient(active_clients)
    /\ pc' = "setS"
    /\ tick' = [tick EXCEPT
          !.applying = TRUE,
          !.retry = {c \in Clients : delivered[c] = "swallowed"}]
    /\ delivered' = RecordDue(delivered)
    /\ UNCHANGED <<config, call, deluge_client, qb_client, is_qb_connected,
                   active_clients, last>>

\* lines 247-249 with set_sabnzbd_speed (32-39)
SetSabnzbdSpeed ==
    /\ pc = "setS"
    /\ LET speed == RateFor("sabnzbd", active_clients, speed_per_client)
       IN  \E exc \in SabSetReplies :
             IF set_sabnzbd_speed_raises(exc)
             THEN /\ pc' = HandlerEntry
                  /\ tick' = [tick EXCEPT
                        !.limits["sabnzbd"] = Append(@, speed),
                        !.limitRemote = @ \cup {"sabnzbd"},
                        !.limitRaised = @ \cup {"sabnzbd"},
                        !.raisedAt = "setS",
                        !.outcome = "aborted"]
                  /\ delivered' = Record(delivered, "sabnzbd", "escaped")
             ELSE /\ pc' = "setD"
                  /\ tick' = [tick EXCEPT
                        !.limits["sabnzbd"] = Append(@, speed),
                        !.limitRemote = @ \cup {"sabnzbd"},
                        !.limitRaised =
                            IF exc # "none" THEN @ \cup {"sabnzbd"} ELSE @]
                  /\ delivered' = Record(delivered, "sabnzbd",
                        IF exc # "none" THEN "swallowed" ELSE "ok")
    /\ UNCHANGED <<config, call, deluge_client, qb_client, is_qb_connected,
                   previous_active_clients, active_clients, speed_per_client, last>>

\* lines 250-253 with set_deluge_speed (88-97)
SetDelugeSpeed ==
    /\ pc = "setD"
    /\ LET speed == RateFor("deluge", active_clients, speed_per_client)
           remote == DelugeUsable(deluge_client)
       IN  \E exc \in DelugeSetReplies :
             /\ deluge_client' = DelugeAfterCall(deluge_client, exc)
             /\ IF set_deluge_speed_raises(deluge_client, exc)
                THEN /\ pc' = HandlerEntry
                     /\ tick' = [tick EXCEPT
                           !.limits["deluge"] = Append(@, speed),
                           !.limitRemote = @ \cup {"deluge"},
                           !.limitRaised = @ \cup {"deluge"},
                           !.raisedAt = "setD",
                           !.outcome = "aborted"]
                     /\ delivered' = Record(delivered, "deluge", "escaped")
                ELSE /\ pc' = "setQ"
                     /\ tick' = [tick EXCEPT
                           !.limits["deluge"] = Append(@, speed),
                           !.limitNoHandle = IF remote THEN @ ELSE @ \cup {"deluge"},
                           !.limitRemote = IF remote THEN @ \cup {"deluge"} ELSE @,
                           !.limitRaised =
                               IF remote /\ exc # "none" THEN @ \cup {"deluge"} ELSE @]
                     /\ delivered' = Record(delivered, "deluge",
                           IF ~remote THEN "noop"
                           ELSE IF exc # "none" THEN "swallowed" ELSE "ok")
    /\ UNCHANGED <<config, call, qb_client, is_qb_connected, previous_active_clients,
                   active_clients, speed_per_client, last>>

\* lines 254-263 with set_qbittorrent_speed (158-165)
SetQbittorrentSpeed ==
    /\ pc = "setQ"
    /\ LET speed == RateFor("qbittorrent", active_clients, speed_per_client)
           remote == qb_client # "None"
       IN  \E exc \in QbSetReplies :
             IF set_qbittorrent_speed_raises(qb_client, exc)
             THEN /\ pc' = HandlerEntry
                  /\ tick' = [tick EXCEPT
                        !.limits["qbittorrent"] = Append(@, speed),
                        !.limitRemote = @ \cup {"qbittorrent"},
                        !.limitRaised = @ \cup {"qbittorrent"},
                        !.raisedAt = "setQ",
                        !.outcome = "aborted"]
                  /\ delivered' = Record(delivered, "qbittorrent", "escaped")
             ELSE /\ pc' = "sleep"
                  /\ tick' = [tick EXCEPT
                        !.limits["qbittorrent"] = Append(@, speed),
                        !.limitNoHandle = IF remote THEN @ ELSE @ \cup {"qbittorrent"},
                        !.limitRemote = IF remote THEN @ \cup {"qbittorrent"} ELSE @,
                        !.limitRaised =
                            IF remote /\ exc # "none" THEN @ \cup {"qbittorrent"} ELSE @,
                        !.outcome = "applied"]
                  /\ delivered' = Record(delivered, "qbittorrent",
                        IF ~remote THEN "noop"
                        ELSE IF exc # "none" THEN "swallowed" ELSE "ok")
    /\ UNCHANGED <<config, call, deluge_client, qb_client, is_qb_connected,
                   previous_active_clients, active_clients, speed_per_client, last>>

NewTick ==
    [FreshTick EXCEPT
        !.prevAtStart = previous_active_clients,
        !.downAtStart = {c \in {"deluge"} : ~DelugeUsable(deluge_client)}
                        \cup {c \in {"qbittorrent"} : qb_client = "None"}]

\* time.sleep(5) of lines 214, 229 and 263, then the top of the loop body
Sleep ==
    /\ pc = "sleep"
    /\ pc' = AfterSleep
    /\ last' = Summary(tick)
    /\ tick' = NewTick
    /\ UNCHANGED <<config, call, delivered, deluge_client, qb_client, is_qb_connected,
                   previous_active_clients, active_clients, speed_per_client>>

\* lines 265-268: the handler of main(), then the top of the loop body
Backoff ==
    /\ pc = "backoff"
    /\ pc' = AfterBackoff
    /\ last' = Summary(tick)
    /\ tick' = NewTick
    /\ UNCHANGED <<config, call, delivered, deluge_client, qb_client, is_qb_connected,
                   previous_active_clients, active_clients, speed_per_client>>

Next ==
    \/ ConnectDeluge
    \/ CheckQbittorrent
    \/ ConnectQbittorrent
    \/ WatchedFolderGate
    \/ CheckSabnzbd
    \/ CheckDeluge
    \/ CheckQbittorrentActivity
    \/ Debounce
    \/ StateChanged
    \/ SetSabnzbdSpeed
    \/ SetDelugeSpeed
    \/ SetQbittorrentSpeed
    \/ Sleep
    \/ Backoff

Spec == Init /\ [][Next]_vars

\* the loop with the configuration of settings.py as shipped, for liveness
ShippedInit ==
    /\ Init
    /\ TOTAL_SPEED_LIMIT = ShippedTotalSpeedLimit
    /\ DEFAULT_SPEED_LIMIT = ShippedDefaultSpeedLimit

\* main() is one sequential thread and each of its calls and sleeps returns
\* (every network call carries a timeout), so a step that can be taken is taken
ShippedFairSpec == ShippedInit /\ [][Next]_vars /\ WF_vars(Next)

\* the loop with the shipped configuration and the history of the
\* set_*_speed() calls
DeliveryInit ==
    /\ Start
    /\ TOTAL_SPEED_LIMIT = ShippedTotalSpeedLimit
    /\ DEFAULT_SPEED_LIMIT = ShippedDefaultSpeedLimit
    /\ delivered = NeverApplied
    /\ call = NoCall

DeliverySpec == DeliveryInit /\ [][Next]_vars

(* ------------------- the functions taken one at a time ------------------ *)
\* lines 217-224: the lists main() can build, in the order of the appends
ActiveLists ==
    {SelectSeq(<<"sabnzbd", "deluge", "qbittorrent">>, LAMBDA c : c \in S) :
        S \in SUBSET Clients}

\* the state a function is applied to: the budget, the floor and the active
\* list for the allocation, the handle and the reply for a status check
FunctionInit ==
    /\ watched_folder_paths = FALSE
    /\ pc = "connD"
    /\ is_qb_connected = FALSE
    /\ previous_active_clients = <<>>
    /\ speed_per_client = 0
    /\ tick = FreshTick
    /\ last = NoLast
    /\ delivered = NotRecorded
    /\ \/ /\ TOTAL_SPEED_LIMIT \in 0..MaxAllocBudget
          /\ DEFAULT_SPEED_LIMIT \in Floors
          /\ active_clients \in ActiveLists
          /\ deluge_client = "None"
          /\ qb_client = "None"
          /\ call = [NoCall EXCEPT !.fn = "allocate"]
       \/ /\ TOTAL_SPEED_LIMIT = ShippedTotalSpeedLimit
          /\ DEFAULT_SPEED_LIMIT = ShippedDefaultSpeedLimit
          /\ active_clients = <<>>
          /\ deluge_client = "None"
          /\ qb_client \in {"None", "client"}
          /\ \E reply \in QbProbeReplies :
                call = [NoCall EXCEPT !.fn = "is_qbittorrent_downloading",
                                      !.reply = reply]
       \/ /\ TOTAL_SPEED_LIMIT = ShippedTotalSpeedLimit
          /\ DEFAULT_SPEED_LIMIT = ShippedDefaultSpeedLimit
          /\ active_clients = <<>>
          /\ deluge_client \in {"None", "connected", "disconnected"}
          /\ qb_client = "None"
          /\ \E reply \in DelugeProbeReplies :
                call = [NoCall EXCEPT !.fn = "is_deluge_downloading",
                                      !.reply = reply]

\* lines 234-261: the rate of the active clients and the argument of each
\* set_*_speed()
Allocate ==
    /\ call.fn = "allocate" /\ ~call.done
    /\ speed_per_client' = SpeedPerClient(active_clients)
    /\ tick' = [tick EXCEPT !.limits =
          [c \in Clients |->
              <<RateFor(c, active_clients, SpeedPerClient(active_clients))>>]]
    /\ call' = [call EXCEPT !.done = TRUE]
    /\ UNCHANGED <<config, pc, deluge_client, qb_client, is_qb_connected,
                   previous_active_clients, active_clients, last, delivered>>

\* lines 136-155
ApplyQbittorrentCheck ==
    /\ call.fn = "is_qbittorrent_downloading" /\ ~call.done
    /\ call' = [call EXCEPT
          !.done = TRUE,
          !.raised = is_qbittorrent_downloading_raises(qb_client, call.reply),
          !.result = /\ ~is_qbittorrent_downloading_raises(qb_client, call.reply)
                     /\ is_qbittorrent_downloading(qb_client, call.reply)]
    /\ UNCHANGED <<config, pc, deluge_client, qb_client, is_qb_connected,
                   previous_active_clients, active_clients, speed_per_client,
                   tick, last, delivered>>

\* lines 60-85
ApplyDelugeCheck ==
    /\ call.fn = "is_deluge_downloading" /\ ~call.done
    /\ call' = [call EXCEPT
          !.done = TRUE,
          !.raised = is_deluge_downloading_raises(deluge_client, call.reply),
          !.result = /\ ~is_deluge_downloading_raises(deluge_client, call.reply)
                     /\ is_deluge_downloading(deluge_client, call.reply)]
    /\ UNCHANGED <<config, pc, deluge_client, qb_client, is_qb_connected,
                   previous_active_clients, active_clients, speed_per_client,
                   tick, last, delivered>>

FunctionNext == Allocate \/ ApplyQbittorrentCheck \/ ApplyDelugeCheck

FunctionSpec == FunctionInit /\ [][FunctionNext]_vars

(* =============================== claims ================================ *)
ActiveSet == {c \in Clients : InSeq(c, active_clients)}

\* allocate(activeSet, budget, floor) of the specification, section 4.4
Allocation(c) ==
    IF ActiveSet = {} THEN DEFAULT_SPEED_LIMIT
    ELSE IF c \in ActiveSet THEN TOTAL_SPEED_LIMIT \div Cardinality(ActiveSet)
    ELSE DEFAULT_SPEED_LIMIT

\* the pass through the loop body is over: main() is in one of its sleeps
TickOver == pc \in {"sleep", "backoff"}

ProbeSteps == {"probeS", "probeD", "probeQ"}
ApplySteps == {"setS", "setD", "setQ"}
ConnectSteps == {"connD", "connQ"}

\* every rate passed to a set_*_speed() in this tick is the client's allocation
RatesPassedAreAllocation ==
    tick.applying =>
        \A c \in Clients : \A i \in 1..Len(tick.limits[c]) :
            tick.limits[c][i] = Allocation(c)

\* C1: whenever the apply step runs with a non-empty ActiveSet of size n,
\* every active client is passed TOTAL_SPEED_LIMIT div n and every other
\* client is passed DEFAULT_SPEED_LIMIT.
C1_ActiveGetShare ==
    (TickOver /\ tick.applying /\ ActiveSet # {}) =>
        \A c \in Clients :
            tick.limits[c] =
                << IF c \in ActiveSet
                   THEN TOTAL_SPEED_LIMIT \div Cardinality(ActiveSet)
                   ELSE DEFAULT_SPEED_LIMIT >>

\* C2: whenever the apply step runs with an empty ActiveSet, all three
\* clients are passed DEFAULT_SPEED_LIMIT, whatever TOTAL_SPEED_LIMIT is.
C2_EmptyGetsFloor ==
    (TickOver /\ tick.applying /\ ActiveSet = {}) =>
        \A c \in Clients : tick.limits[c] = <<DEFAULT_SPEED_LIMIT>>

\* two consecutive passes that both ran to their 5 s sleep after the status
\* checks and computed the same list of active clients
TwoCompletedTicksSameState ==
    /\ pc = "sleep"
    /\ tick.outcome \in {"debounced", "applied"}
    /\ last.outcome \in {"debounced", "applied"}
    /\ active_clients = last.active

\* a tick whose ActiveSet equals PreviousActiveSet calls no set_*_speed()
\* and leaves previous_active_clients as it was
UnchangedTickIsNoOp ==
    (tick.polled /\ pc \notin ProbeSteps /\ active_clients = tick.prevAtStart) =>
        /\ tick.limits = NoCalls
        /\ ~tick.applying
        /\ previous_active_clients = tick.prevAtStart

\* C3 as stated: of two consecutive completed ticks with the same ActiveSet,
\* the first calls set_*_speed() exactly once for each client and the second
\* not at all; an unchanged tick is a no-op.
C3_ExactlyOnceInFirst ==
    /\ TwoCompletedTicksSameState =>
          \A c \in Clients : last.calls[c] = 1 /\ Len(tick.limits[c]) = 0
    /\ UnchangedTickIsNoOp

\* C3 as amended: of two consecutive completed ticks with the same ActiveSet,
\* the second calls no set_*_speed(); the first calls each once if its
\* ActiveSet differed from PreviousActiveSet and none otherwise; an unchanged
\* tick is a no-op.
C3_AtMostOnceInFirst ==
    /\ TwoCompletedTicksSameState =>
          \A c \in Clients :
              /\ Len(tick.limits[c]) = 0
              /\ last.calls[c] = IF last.changed THEN 1 ELSE 0
    /\ UnchangedTickIsNoOp

C3_Witness ==
    /\ TwoCompletedTicksSameState
    /\ last.outcome = "applied"
    /\ tick.outcome = "debounced"
    /\ active_clients = <<"sabnzbd", "qbittorrent">>

\* C4: a status check whose remote call raises leaves its client out of the
\* ActiveSet and the exception does not reach the handler of main().
C4_ProbeFailSafe ==
    /\ tick.raisedAt \notin ProbeSteps
    /\ \A c \in tick.probeRaised : c \notin ActiveSet

Handle(c) == IF c = "deluge" THEN deluge_client ELSE qb_client

\* C5 as stated: in a tick in which a connect fails, the handle is absent and
\* the two other clients are probed and are passed their allocation.
C5_OthersProbedAndAllocated ==
    TickOver =>
        \A a \in tick.connectFailed :
            /\ Handle(a) = "None"
            /\ \A c \in Clients \ {a} :
                  /\ c \in tick.probed
                  /\ tick.limits[c] = <<Allocation(c)>>

\* what a failed connect leaves behind during its tick
FailedConnectAbsorbed ==
    /\ tick.raisedAt \notin ConnectSteps
    /\ \A a \in tick.connectFailed :
          /\ Handle(a) = "None"
          /\ a \in tick.probed => a \notin ActiveSet
          /\ a \in tick.probed => a \in tick.probeNoHandle
    /\ tick.polled => tick.probed = Clients
    /\ RatesPassedAreAllocation
    /\ tick.outcome = "applied" => \A c \in Clients : Len(tick.limits[c]) = 1

\* the step after a connect attempt is the next step of the loop body
ConnectStepGoesOn ==
    /\ (pc = "connD" /\ pc' # pc) => pc' = "checkQ"
    /\ (pc = "connQ" /\ pc' # pc) => pc' = "gate"

\* C5 as amended: a failed connect is absorbed (handle absent, no exception in
\* the handler of main(), the loop body goes on with its next step) and its
\* client is not in the ActiveSet; once the status checks are through all
\* three clients were probed, every rate passed in the tick is the allocation
\* of the resulting ActiveSet, and all three are passed one when the apply
\* step runs to its end.
C5_ConnectFailureAbsorbed == [](FailedConnectAbsorbed) /\ [][ConnectStepGoesOn]_vars

C5_Witness ==
    /\ pc = "sleep"
    /\ tick.outcome = "applied"
    /\ tick.connectFailed = {"deluge"}
    /\ ActiveSet = {"sabnzbd", "qbittorrent"}
    /\ tick.limits["deluge"] = <<DEFAULT_SPEED_LIMIT>>

\* C6: an exception raised by the remote call of a set_*_speed() stays inside
\* the adapter: it does not reach the handler of main().
C6_ApplyIsolation ==
    tick.limitRaised # {} => tick.raisedAt \notin ApplySteps

\* C7: the loop always comes back to the top of its body, and an exception
\* that reached the handler of main() leads there too, never out of the loop.
C7_LoopNeverExits ==
    /\ []<>(pc = "connD")
    /\ (tick.raisedAt # "none") ~> (pc = "connD" /\ last.outcome = "aborted")
    /\ [](tick.raisedAt # "none" => pc = "backoff")

C7_Witness == pc = "checkQ" /\ last.outcome = "aborted"

\* C8: a tick in which the watched folders are configured and empty makes no
\* connect, no version probe, no status check and no set_*_speed() call.
C8_GateSkipsAllCalls ==
    tick.gateClosed =>
        /\ tick.connects = {}
        /\ ~tick.versionProbed
        /\ tick.probed = {}
        /\ tick.limits = NoCalls

\* C9: in a tick in which the apply step runs, each client gets exactly one
\* set_*_speed() call with its allocation; without a handle the call makes
\* no remote call and raises nothing.
C9_OneCallEach ==
    (TickOver /\ tick.applying) =>
        \A c \in Clients :
            /\ tick.limits[c] = <<Allocation(c)>>
            /\ c \in tick.limitNoHandle =>
                  c \notin tick.limitRemote /\ c \notin tick.limitRaised

\* C10: Deluge or qBittorrent with no handle at its status check is not in
\* the ActiveSet of that tick.
C10_NoHandleNotActive ==
    \A c \in {"deluge", "qbittorrent"} :
        (c \in tick.probed /\ Handle(c) = "None") => c \notin ActiveSet

C10_Witness ==
    /\ pc = "debounce"
    /\ active_clients = <<"sabnzbd">>
    /\ tick.probeNoHandle = {"deluge", "qbittorrent"}
    /\ "deluge" \in tick.connectFailed

\* the connection step of the tick is over
Supervised == pc \notin {"connD", "checkQ", "connQ"}

\* C11 as stated: when qb_client.app.version fails, the handle is cleared and
\* get_qbittorrent_client() is not called in the same tick.
C11_NoReconnectInSameTick ==
    (tick.versionLost \/ tick.raisedAt = "checkQ") =>
        /\ qb_client = "None"
        /\ "qbittorrent" \notin tick.connects

\* C11 as amended: when qb_client.app.version raises APIConnectionError,
\* get_qbittorrent_client() is called in the same tick and its result replaces
\* the handle (the new client, or None when the connect fails too); when it
\* raises another exception the tick is abandoned with the old handle kept and
\* no connect.
C11_ReconnectInSameTick ==
    /\ (tick.versionLost /\ pc = "connQ") =>
          qb_client = "client" /\ "qbittorrent" \notin tick.connects
    /\ (tick.versionLost /\ Supervised) =>
          /\ "qbittorrent" \in tick.connects
          /\ qb_client = IF "qbittorrent" \in tick.connectFailed
                         THEN "None" ELSE "client"
    /\ tick.raisedAt = "checkQ" =>
          /\ tick.versionProbed
          /\ qb_client = "client"
          /\ "qbittorrent" \notin tick.connects

C11_Witness ==
    /\ pc = "gate"
    /\ tick.versionLost
    /\ tick.connects = {"qbittorrent"}
    /\ qb_client = "client"

\* the agent has no usable handle
Down(a) ==
    IF a = "deluge" THEN ~DelugeUsable(deluge_client) ELSE qb_client = "None"

\* the step that follows the connect of the agent
AfterConnect(a) == IF a = "deluge" THEN "checkQ" ELSE "gate"

\* every pass that begins with the agent down has called its connect() once
\* when the connection step is over, and no pass calls it twice
ConnectedOncePerTick ==
    \A a \in {"deluge", "qbittorrent"} :
        /\ tick.connectCalls[a] <= 1
        /\ (Supervised /\ a \in tick.downAtStart) => tick.connectCalls[a] = 1
        /\ (a = "deluge" /\ a \notin tick.downAtStart) => tick.connectCalls[a] = 0

\* a connect() call stores the handle on success, clears it on failure, and
\* the pass goes on either way
ConnectStoresOrClears ==
    \A a \in {"deluge", "qbittorrent"} :
        tick'.connectCalls[a] > tick.connectCalls[a] =>
            /\ pc' = AfterConnect(a)
            /\ Down(a)' <=> (a \in tick'.connectFailed)
            /\ a \in tick'.connectFailed =>
                  IF a = "deluge" THEN deluge_client' = "None"
                                  ELSE qb_client' = "None"

\* an agent that is down is connected later, or sees one more connect() fail:
\* connect() is retried for as long as it fails
RetriedUntilConnected ==
    \A a \in {"deluge", "qbittorrent"} :
        Down(a) ~> (~Down(a) \/ (pc = AfterConnect(a) /\ a \in tick.connectFailed))

\* C12: lazy reconnect. A pass that begins with a session client down calls
\* its connect() exactly once; success stores the handle, failure clears it and
\* the pass proceeds; the call is repeated in every pass until it succeeds.
C12_LazyReconnect ==
    /\ []ConnectedOncePerTick
    /\ [][ConnectStoresOrClears]_vars
    /\ RetriedUntilConnected

\* a later pass reconnects Deluge after the connection was lost
C12_Witness ==
    /\ pc = "checkQ"
    /\ last.outcome # "none"
    /\ "deluge" \in tick.downAtStart
    /\ tick.connectCalls["deluge"] = 1
    /\ deluge_client = "connected"

\* C13 as stated: supervisor isolation. When qb_client.app.version fails,
\* whatever the exception, a pass that no other failure ends (and that the
\* watched folders let through) still probes SABnzbd and Deluge.
C13_SupervisorIsolation ==
    ( /\ TickOver
      /\ tick.versionLost \/ tick.raisedAt = "checkQ"
      /\ ~tick.gateClosed
      /\ tick.raisedAt \notin ProbeSteps ) =>
        {"sabnzbd", "deluge"} \subseteq tick.probed

\* set_*_speed() was called for every client in this pass
AppliedToAll == \A c \in Clients : tick.limits[c] # <<>>

\* C14 as stated: previous_active_clients is the active list of the last pass
\* that called set_*_speed() on all three clients. At the end of every pass,
\* also of one that an exception ended, it is the list of this pass when all
\* three calls were made and differs from the old value only then; otherwise
\* it still is what it was at the top of the pass.
C14_PreviousIsLastApplied ==
    TickOver =>
        /\ previous_active_clients =
              IF AppliedToAll THEN active_clients ELSE tick.prevAtStart
        /\ previous_active_clients # tick.prevAtStart =>
              tick.polled /\ active_clients # tick.prevAtStart

\* C15 as stated: a client whose last set_*_speed() call failed and was
\* swallowed is passed its newly allocated rate in the first later pass whose
\* active list differs from previous_active_clients.
C15_RetriedAtNextChange ==
    (TickOver /\ tick.applying) =>
        \A c \in tick.retry : tick.limits[c] = <<Allocation(c)>>

RECURSIVE SumOfRates(_)
\* the sum of the rates passed to the clients of the list
SumOfRates(active) ==
    IF Len(active) = 0 THEN 0
    ELSE tick.limits[Head(active)][1] + SumOfRates(Tail(active))

\* C16: for a budget B >= 0 and n = 1, 2 or 3 active clients, the rates passed
\* to the active clients sum to n * (B div n), which is at most B and misses B
\* by at most n - 1.
C16_SumWithinBudget ==
    (call.fn = "allocate" /\ call.done /\ Len(active_clients) > 0) =>
        LET n == Len(active_clients)
            B == TOTAL_SPEED_LIMIT
        IN  /\ SumOfRates(active_clients) = n * (B \div n)
            /\ SumOfRates(active_clients) <= B
            /\ B - n * (B \div n) <= n - 1
            /\ B - SumOfRates(active_clients) >= 0

\* three active clients share a budget that three does not divide
C16_Witness ==
    /\ call.fn = "allocate" /\ call.done
    /\ Len(active_clients) = 3
    /\ TOTAL_SPEED_LIMIT % 3 = 2
    /\ SumOfRates(active_clients) = TOTAL_SPEED_LIMIT - 2

\* the states the specification lets count as downloading
QbCounted ==
    QbStates \ {"pausedDL", "stoppedDL", "stalledDL", "metaDL", "queuedDL",
                "checkingDL", "checkingResumeData"}

\* C17: is_qbittorrent_downloading returns True iff the handle is present and
\* the list returned under the "downloading" filter holds a torrent whose state
\* is none of pausedDL, stoppedDL, stalledDL, metaDL, queuedDL, checkingDL,
\* checkingResumeData; an empty list gives False.
C17_QbDownloadingIff ==
    (call.fn = "is_qbittorrent_downloading" /\ call.done) =>
        /\ call.result <=>
              /\ qb_client # "None"
              /\ call.reply.exc = "none"
              /\ \E i \in 1..Len(call.reply.torrents) :
                    call.reply.torrents[i] \in QbCounted
        /\ (call.reply.exc = "none" /\ call.reply.torrents = <<>>) =>
              ~call.result /\ ~call.raised

\* a queued torrent is passed over and the one after it counts
C17_Witness ==
    /\ call.fn = "is_qbittorrent_downloading" /\ call.done
    /\ call.result
    /\ Len(call.reply.torrents) = 2
    /\ call.reply.torrents[1] = "queuedDL"

\* C18: is_deluge_downloading returns True iff the handle is present and
\* connected and a torrent reported as Downloading has a download_payload_rate
\* above 0, a missing rate counting as 0; rates that are all 0, an empty
\* result and every exception of the call give False.
C18_DelugeDownloadingIff ==
    (call.fn = "is_deluge_downloading" /\ call.done) =>
        /\ ~call.raised
        /\ call.result <=>
              /\ deluge_client = "connected"
              /\ call.reply.exc = "none"
              /\ \E i \in 1..Len(call.reply.torrents) :
                    /\ call.reply.torrents[i].has_rate
                    /\ call.reply.torrents[i].download_payload_rate > 0

\* a torrent without a rate is passed over and the one after it counts
C18_Witness ==
    /\ call.fn = "is_deluge_downloading" /\ call.done
    /\ call.result
    /\ Len(call.reply.torrents) = 2
    /\ ~call.reply.torrents[1].has_rate

\* the allocation of the last pass that reached line 233 did not reach the
\* client: set_*_speed() returned at once for want of a handle, or its remote
\* call raised
Missed(c) == delivered[c] \in {"noop", "swallowed", "escaped"}

\* a pass whose active list equals previous_active_clients calls no
\* set_*_speed() for a client that was missed
MissedNotCalled ==
    \A c \in Clients :
        (Missed(c) /\ ~tick.applying) => tick.limits[c] = <<>>

\* a missed client stays missed until a pass finds an active list that
\* differs from previous_active_clients
MissedUntilChange ==
    \A c \in Clients :
        (Missed(c) /\ delivered'[c] # delivered[c]) =>
            pc = "debounce" /\ active_clients # previous_active_clients

\* C19: a client that had no handle, or whose set_*_speed() failed, in the
\* last pass that applied the allocation gets no set_*_speed() call in the
\* passes whose active list equals previous_active_clients, connected again or
\* not: nothing but a change of the active list ends that.
C19_MissedStaysMissed == []MissedNotCalled /\ [][MissedUntilChange]_vars

\* Deluge had no handle when the allocation was applied, is connected again,
\* and two passes in a row have left it alone
C19_Witness ==
    /\ pc = "sleep"
    /\ tick.outcome = "debounced"
    /\ last.outcome = "debounced"
    /\ delivered["deluge"] = "noop"
    /\ deluge_client = "connected"
    /\ delivered["qbittorrent"] = "swallowed"

\* nothing has been applied: no set_*_speed() call in this pass, and
\* previous_active_clients is still the empty list of line 177
NothingAppliedYet ==
    delivered = NeverApplied =>
        /\ tick.limits = NoCalls
        /\ ~tick.applying
        /\ previous_active_clients = <<>>

\* the first pass that applies an allocation has an active client
FirstApplyHasActive ==
    (delivered = NeverApplied /\ delivered' # NeverApplied) =>
        /\ pc = "debounce"
        /\ active_clients # <<>>

\* C20: previous_active_clients starts empty, so no set_*_speed() call is made
\* before the first pass that finds a client active; while no client is
\* active the default limit is passed to no client.
C20_NoCallBeforeFirstActive == []NothingAppliedYet /\ [][FirstApplyHasActive]_vars

\* two idle passes in a row with both session clients connected, and still
\* no limit has been set
C20_Witness ==
    /\ pc = "sleep"
    /\ tick.outcome = "debounced"
    /\ last.outcome = "debounced"
    /\ active_clients = <<>>
    /\ delivered = NeverApplied
    /\ deluge_client = "connected"
    /\ qb_client = "client"
====
